---- MODULE Spec2Model ----
(***************************************************************************)
(* NeuralDB (neuralrag/src/db.ts): the SQLite-backed neuron graph store.   *)
(* Tables are sets of rows; every public method of NeuralDB that mutates   *)
(* the store is one action.  Weights are REAL in the schema; here they are *)
(* counted in hundredths (0.3 is 30, 0.05 is 5, 1.0 is 100).  Timestamps   *)
(* are counted in whole days on the clock `now`.                           *)
(***************************************************************************)
EXTENDS Integers, Sequences, FiniteSets, TLC

\* ---------------------------------------------------------------- bounds
MaxNeurons == 2
MaxSynapses == 2
MaxBatch == 2
MaxFire == 1
MaxDay == 1
MaxQueries == 1
MaxCalls == 17
WeightCap == 150
MaxActivation == 1
MaxVersion == 2
MaxLine == 2
MaxBuffer == 2

\* ------------------------------------------------------------- constants
\* 1.0 in hundredths: the clamp of strengthenSynapse, MIN(1.0, ...)
One == 100
\* 0.3: the initial weight findOrCreateCoActivationSynapse passes
CoActivationInitialWeight == 30
\* 0.05: strengthenSynapse's default delta
DefaultStrengthenDelta == 5
\* const SCHEMA_VERSION = 1
SCHEMA_VERSION == 1
\* a NULL timestamp column (last_fired TEXT, nullable)
NoTime == 0 - 1
\* a NULL text value
NULL == "NULL"

\* types.ts SynapseType
SynapseType ==
    {"imports", "calls", "type_reference", "extends", "proximity",
     "co_activation", "semantic"}

\* ----------------------------------------------------------- input sets
Files == {"A", "B"}
ManifestPaths == {"A"}
NeuronIds == 1..MaxNeurons
InputTypes == {"imports", "co_activation"}
InputWeights == {50, 150}
BatchWeights == {50}
Deltas == {0 - 50, 0, 50}
DaysOld == {0}

\* the ArrayBuffers embeddings are views of: 0 .. MaxBuffer float32 elements
ArrayBuffers == {[i \in 1..n |-> 10 * i] : n \in 0..MaxBuffer}
\* new Float32Array(buffer, byteOffset, length), offset counted in elements
Float32Array(buffer, offset, length) ==
    [buffer |-> buffer, offset |-> offset, length |-> length]
\* the elements a Float32Array shows of its buffer
Elements(a) == SubSeq(a.buffer, a.offset + 1, a.offset + a.length)
\* new Float32Array(0)
EmptyEmbedding == Float32Array(<<>>, 0, 0)
Embeddings ==
    {Float32Array(b, o, l) : b \in ArrayBuffers, o \in 0..MaxBuffer, l \in 0..MaxBuffer}
Lines == 1..MaxLine

NeuronCreateInput ==
    [file_path : Files, name : {"f", NULL}, start_line : {1}, end_line : {1},
     embedding : {EmptyEmbedding}]
\* SpecNeurons' inputs: neurons of one file with any line span and any
\* embedding that is a view inside its buffer
NeuronLineInput ==
    {i \in [file_path : {"A"}, name : {"f"}, start_line : Lines, end_line : Lines,
             embedding : Embeddings] :
        i.embedding.offset + i.embedding.length <= Len(i.embedding.buffer)}
SynapseCreateInput ==
    [source_id : NeuronIds, target_id : NeuronIds, weight : InputWeights,
     type : InputTypes, metadata : {NULL}]
\* the items batches are built from: edges out of neuron 1, one of them with
\* either weight; neurons of either file, with a missing name only in file A
SynapseBatchInput ==
    {i \in SynapseCreateInput :
        /\ i.source_id = 1
        /\ \/ i.weight \in BatchWeights
           \/ i.target_id = 2 /\ i.type = "imports"}
NeuronBatchInput ==
    {i \in NeuronCreateInput : i.name = NULL => i.file_path = "A"}
\* SpecLearn's inputs: one file, one initial weight (the latter SpecFiles' too)
LearnNeuronInput == {i \in NeuronCreateInput : i.file_path = "A" /\ i.name # NULL}
LearnSynapseInput == {i \in SynapseCreateInput : i.weight \in BatchWeights}

\* SpecActivate's inputs: named neurons, edges from neuron 1 to neuron 2,
\* one delta
ActNeuronInput == {i \in NeuronCreateInput : i.name # NULL}
ActSynapseInput == {i \in LearnSynapseInput : i.source_id = 1 /\ i.target_id = 2}
ActDeltas == {100}

BatchesOf(S) == UNION {[1..n -> S] : n \in 0..MaxBatch}

\* the ordered pairs the co-activation runs of SpecCo observe
CoPairs == {<<1, 2>>, <<2, 1>>}

\* the callers of SpecRace: two requests of one process, each observing a pair
Callers == {"c1", "c2"}

\* neurons .. query_log: the tables; now: the clock; op: the method called last;
\* ret: what it returned; calls: how often each pair of CoPairs was observed;
\* schema_version: the value of the _meta row 'schema_version', 0 without one;
\* callers: where each caller of SpecRace is with its call
VARIABLES neurons, synapses, indexed_files, query_log, now, op, ret, calls,
          schema_version, callers

vars == <<neurons, synapses, indexed_files, query_log, now, op, ret, calls, schema_version, callers>>
tables == <<neurons, synapses, indexed_files, query_log>>

\* ------------------------------------------------------------- helpers
Ids(tbl) == {r.id : r \in tbl}

\* uuidv4(): an id no row of the table carries
uuidv4(tbl) == CHOOSE i \in 1..(Cardinality(tbl) + 1) : i \notin Ids(tbl)

Min(a, b) == IF a <= b THEN a ELSE b
Max(a, b) == IF a >= b THEN a ELSE b

\* What a call leaves behind.  raised: it threw; changes: the number it returned
\* (result.changes); rows: the row it returned, {} for null or void.  Three
\* counts the caller never sees are kept beside them: cascaded, the synapse
\* rows removed by the foreign key action; rolled_back, the rows a transaction
\* had inserted when it threw; ignored, the inputs OR IGNORE skipped.
Result(raised, changes, rows, cascaded, rolled_back, ignored) ==
    [raised |-> raised, changes |-> changes, rows |-> rows,
     cascaded |-> cascaded, rolled_back |-> rolled_back, ignored |-> ignored]

Void == Result(FALSE, 0, {}, 0, 0, 0)

\* ---------------------------------------------------------- neuron CRUD
\* the NOT NULL columns of the neurons table
NeuronNotNullOK(input) == input.name # NULL /\ input.file_path # NULL

\* Buffer.from(input.embedding.buffer): the bytes of the whole ArrayBuffer
\* the embedding is a view of
BufferFrom(arrayBuffer) == arrayBuffer

\* the embedding column: {} for NULL, {blob} otherwise
EmbeddingBuffer(input) == {BufferFrom(input.embedding.buffer)}

NeuronRow(id, input) ==
    [id |-> id, file_path |-> input.file_path, name |-> input.name,
     start_line |-> input.start_line, end_line |-> input.end_line,
     embedding |-> EmbeddingBuffer(input),
     activation_count |-> 0, last_activated |-> NoTime]

\* rowToNeuron: the blob read as float32 elements, no elements for NULL
rowToNeuron(row) ==
    [row EXCEPT !.embedding = IF row.embedding # {}
                                THEN CHOOSE blob \in row.embedding : TRUE
                                ELSE <<>>]

\* SELECT * FROM neurons WHERE id = ?
getNeuron(tbl, id) == {rowToNeuron(x) : x \in {y \in tbl : y.id = id}}

\* INSERT INTO neurons ...: the table after the statement, and whether it raised
InsertNeuron(tbl, input) ==
    IF NeuronNotNullOK(input)
    THEN [tbl |-> tbl \cup {NeuronRow(uuidv4(tbl), input)}, raised |-> FALSE,
          id |-> uuidv4(tbl)]
    ELSE [tbl |-> tbl, raised |-> TRUE, id |-> uuidv4(tbl)]

RECURSIVE InsertNeurons(_, _)
\* the body of createNeuronsBatch's transaction: stops at the first throw
InsertNeurons(tbl, items) ==
    IF items = <<>> THEN [tbl |-> tbl, raised |-> FALSE]
    ELSE LET r == InsertNeuron(tbl, Head(items))
         IN  IF r.raised THEN [tbl |-> tbl, raised |-> TRUE]
             ELSE InsertNeurons(r.tbl, Tail(items))

\* as Transaction, had the inserts run outside db.transaction: what the loop
\* stored before the throw stays
TransactionWithoutRollback(before, r) == r.tbl

\* db.transaction(fn): commit when fn returns, roll back when it throws
Transaction(before, r) == IF r.raised THEN before ELSE r.tbl

\* rows the transaction body had added to the table when it ended
Added(before, r) == Cardinality(r.tbl) - Cardinality(before)

\* as Cascade, had target_id been declared without ON DELETE CASCADE
CascadeSourceOnly(syn, deleted) ==
    {s \in syn : s.source_id \notin deleted}

\* ON DELETE CASCADE on synapses.source_id and synapses.target_id
Cascade(syn, deleted) ==
    {s \in syn : s.source_id \notin deleted /\ s.target_id \notin deleted}

\* DELETE FROM neurons WHERE file_path = ?
DeletedByFile(nrs, filePath) == {n \in nrs : n.file_path = filePath}

createNeuron(input) ==
    /\ Cardinality(neurons) < MaxNeurons
    /\ LET r == InsertNeuron(neurons, input)
       IN  /\ neurons' = r.tbl
           /\ ret' = Result(r.raised, 0,
                            IF r.raised THEN {} ELSE getNeuron(r.tbl, r.id),
                            0, 0, 0)
    /\ op' = "createNeuron"
    /\ UNCHANGED <<synapses, indexed_files, query_log, now, calls, schema_version, callers>>

createNeuronsBatch(inputs) ==
    /\ Cardinality(neurons) + Len(inputs) <= MaxNeurons
    /\ LET r == InsertNeurons(neurons, inputs)
       IN  /\ neurons' = Transaction(neurons, r)
           /\ ret' = Result(r.raised, 0, {}, 0,
                            IF r.raised THEN Added(neurons, r) ELSE 0, 0)
    /\ op' = "createNeuronsBatch"
    /\ UNCHANGED <<synapses, indexed_files, query_log, now, calls, schema_version, callers>>

deleteNeuronsByFile(filePath) ==
    /\ LET gone == DeletedByFile(neurons, filePath)
           left == Cascade(synapses, Ids(gone))
       IN  /\ neurons' = neurons \ gone
           /\ synapses' = left
           /\ ret' = Result(FALSE, Cardinality(gone), {},
                            Cardinality(synapses) - Cardinality(left), 0, 0)
    /\ op' = "deleteNeuronsByFile"
    /\ UNCHANGED <<indexed_files, query_log, now, calls, schema_version, callers>>

\* as UpdateNeuronActivation, had the UPDATE no WHERE clause
UpdateEveryNeuronActivation(tbl, id, t) ==
    {[n EXCEPT !.activation_count = n.activation_count + 1,
               !.last_activated = t] : n \in tbl}

\* SET activation_count = activation_count + 1, last_activated = datetime('now')
\* WHERE id = ?
UpdateNeuronActivation(tbl, id, t) ==
    {IF n.id = id
       THEN [n EXCEPT !.activation_count = n.activation_count + 1,
                      !.last_activated = t]
       ELSE n : n \in tbl}

updateNeuronActivation(id) ==
    /\ \A n \in neurons : n.id = id => n.activation_count < MaxActivation
    /\ neurons' = UpdateNeuronActivation(neurons, id, now)
    /\ ret' = Void
    /\ op' = "updateNeuronActivation"
    /\ UNCHANGED <<synapses, indexed_files, query_log, now, calls, schema_version, callers>>

\* --------------------------------------------------------- synapse CRUD
\* as UniqueConflict, had the table been declared without its UNIQUE clause
NoUniqueClause(tbl, input) == FALSE

\* UNIQUE(source_id, target_id, type)
UniqueConflict(tbl, input) ==
    \E s \in tbl : /\ s.source_id = input.source_id
                   /\ s.target_id = input.target_id
                   /\ s.type = input.type

\* as ForeignKeyOK, had the constructor not set PRAGMA foreign_keys = ON
ForeignKeysOff(nrs, input) == TRUE

\* REFERENCES neurons(id), with PRAGMA foreign_keys = ON
ForeignKeyOK(nrs, input) ==
    input.source_id \in Ids(nrs) /\ input.target_id \in Ids(nrs)

SynapseRow(id, input) ==
    [id |-> id, source_id |-> input.source_id, target_id |-> input.target_id,
     weight |-> input.weight, type |-> input.type, metadata |-> input.metadata,
     fire_count |-> 0, last_fired |-> NoTime]

\* as InsertOrIgnoreSynapse, had the statement been INSERT OR REPLACE: the
\* row that holds the triple is deleted and the input inserted
InsertOrReplaceSynapse(tbl, nrs, input) ==
    LET kept == {s \in tbl : ~(/\ s.source_id = input.source_id
                               /\ s.target_id = input.target_id
                               /\ s.type = input.type)}
    IN  IF ~ForeignKeyOK(nrs, input)
        THEN [tbl |-> tbl, raised |-> TRUE, id |-> uuidv4(tbl)]
        ELSE [tbl |-> kept \cup {SynapseRow(uuidv4(tbl), input)},
              raised |-> FALSE, id |-> uuidv4(tbl)]

\* INSERT OR IGNORE INTO synapses ...: a UNIQUE conflict skips the row, a
\* foreign key violation raises (OR IGNORE does not cover foreign keys)
InsertOrIgnoreSynapse(tbl, nrs, input) ==
    IF UniqueConflict(tbl, input)
    THEN [tbl |-> tbl, raised |-> FALSE, id |-> uuidv4(tbl)]
    ELSE IF ~ForeignKeyOK(nrs, input)
    THEN [tbl |-> tbl, raised |-> TRUE, id |-> uuidv4(tbl)]
    ELSE [tbl |-> tbl \cup {SynapseRow(uuidv4(tbl), input)}, raised |-> FALSE,
          id |-> uuidv4(tbl)]

RECURSIVE InsertSynapses(_, _, _)
\* the body of createSynapsesBatch's transaction: stops at the first throw
InsertSynapses(tbl, nrs, items) ==
    IF items = <<>> THEN [tbl |-> tbl, raised |-> FALSE]
    ELSE LET r == InsertOrIgnoreSynapse(tbl, nrs, Head(items))
         IN  IF r.raised THEN [tbl |-> tbl, raised |-> TRUE]
             ELSE InsertSynapses(r.tbl, nrs, Tail(items))

\* SELECT * FROM synapses WHERE id = ?
getSynapse(tbl, id) == {s \in tbl : s.id = id}

\* the synapses table after createSynapse(input), whether it raised, its result
CreateSynapse(tbl, nrs, input) ==
    LET r == InsertOrIgnoreSynapse(tbl, nrs, input)
    IN  [tbl |-> r.tbl, raised |-> r.raised,
         rows |-> IF r.raised THEN {} ELSE getSynapse(r.tbl, r.id)]

\* WHERE source_id = ? AND target_id = ?   (strengthenSynapse, weakenSynapse)
PairMatches(s, sourceId, targetId) ==
    s.source_id = sourceId /\ s.target_id = targetId

\* as Strengthened, had the SET clause been weight = weight + ?
StrengthenedUnclamped(s, delta, t) ==
    [s EXCEPT !.weight = s.weight + delta,
              !.fire_count = s.fire_count + 1,
              !.last_fired = t]

\* SET weight = MIN(1.0, weight + ?), fire_count = fire_count + 1,
\*     last_fired = datetime('now')
Strengthened(s, delta, t) ==
    [s EXCEPT !.weight = Min(One, s.weight + delta),
              !.fire_count = s.fire_count + 1,
              !.last_fired = t]

StrengthenSynapse(tbl, sourceId, targetId, delta, t) ==
    {IF PairMatches(s, sourceId, targetId) THEN Strengthened(s, delta, t) ELSE s
       : s \in tbl}

\* as Weakened, had the SET clause been weight = weight - ?
WeakenedUnclamped(s, delta) == [s EXCEPT !.weight = s.weight - delta]

\* SET weight = MAX(0.0, weight - ?)   (weakenSynapse, decayUnusedSynapses)
Weakened(s, delta) == [s EXCEPT !.weight = Max(0, s.weight - delta)]

WeakenSynapse(tbl, sourceId, targetId, delta) ==
    {IF PairMatches(s, sourceId, targetId) THEN Weakened(s, delta) ELSE s
       : s \in tbl}

\* as DecayMatches, had a synapse that never fired counted as unused
DecayMatchesUnfired(s, daysOld, t) ==
    /\ s.last_fired = NoTime \/ t - s.last_fired > daysOld
    /\ s.type = "co_activation"

\* as DecayMatches, had the WHERE clause not ended AND type = 'co_activation'
DecayMatchesAnyType(s, daysOld, t) ==
    /\ s.last_fired # NoTime
    /\ t - s.last_fired > daysOld

\* WHERE last_fired IS NOT NULL AND julianday('now') - julianday(last_fired) > ?
\*   AND type = 'co_activation'
DecayMatches(s, daysOld, t) ==
    /\ s.last_fired # NoTime
    /\ t - s.last_fired > daysOld
    /\ s.type = "co_activation"

DecayUnusedSynapses(tbl, daysOld, delta, t) ==
    {IF DecayMatches(s, daysOld, t) THEN Weakened(s, delta) ELSE s : s \in tbl}

\* result.changes of the UPDATE: the rows its WHERE clause matched
DecayChanges(tbl, daysOld, t) ==
    Cardinality({s \in tbl : DecayMatches(s, daysOld, t)})

\* SELECT id FROM synapses WHERE source_id = ? AND target_id = ? AND type = 'co_activation'
Existing(tbl, sourceId, targetId) ==
    {s \in tbl : /\ s.source_id = sourceId
                 /\ s.target_id = targetId
                 /\ s.type = "co_activation"}

CoActivationInput(sourceId, targetId) ==
    [source_id |-> sourceId, target_id |-> targetId,
     weight |-> CoActivationInitialWeight, type |-> "co_activation",
     metadata |-> NULL]

\* the body of findOrCreateCoActivationSynapse after its SELECT ran on the
\* table checked: strengthen when it found a row, create otherwise
FindOrCreateAfterCheck(checked, tbl, nrs, sourceId, targetId, t) ==
    IF Existing(checked, sourceId, targetId) # {}
    THEN [tbl |-> StrengthenSynapse(tbl, sourceId, targetId, DefaultStrengthenDelta, t),
          raised |-> FALSE]
    ELSE LET r == CreateSynapse(tbl, nrs, CoActivationInput(sourceId, targetId))
         IN  [tbl |-> r.tbl, raised |-> r.raised]

\* the table after findOrCreateCoActivationSynapse(sourceId, targetId)
FindOrCreateCoActivationSynapse(tbl, nrs, sourceId, targetId, t) ==
    FindOrCreateAfterCheck(tbl, tbl, nrs, sourceId, targetId, t)

\* as CheckedTable, had the method been async, with its SELECT issued at the
\* call and its write run in a later turn
CheckedTableAtCall(current, atCall) == atCall

\* the table the SELECT of a pending call reads: the method is synchronous
\* (better-sqlite3, no await), so it reads the table as it is when the call
\* runs, not as it was when the caller asked for it
CheckedTable(current, atCall) == current

\* what keeps the model finite: row count, fire counts and weights stay in range
InBounds(tbl) ==
    /\ Cardinality(tbl) <= MaxSynapses
    /\ \A s \in tbl : /\ s.fire_count <= MaxFire
                      /\ s.weight >= 0 - WeightCap
                      /\ s.weight <= WeightCap

createSynapse(input) ==
    /\ LET r == CreateSynapse(synapses, neurons, input)
       IN  /\ InBounds(r.tbl)
           /\ synapses' = r.tbl
           /\ ret' = Result(r.raised, 0, r.rows, 0, 0,
                            IF r.raised THEN 0 ELSE 1 - Added(synapses, r))
    /\ op' = "createSynapse"
    /\ UNCHANGED <<neurons, indexed_files, query_log, now, calls, schema_version, callers>>

createSynapsesBatch(inputs) ==
    /\ LET r == InsertSynapses(synapses, neurons, inputs)
       IN  /\ InBounds(r.tbl)
           /\ synapses' = Transaction(synapses, r)
           /\ ret' = Result(r.raised, 0, {}, 0,
                            IF r.raised THEN Added(synapses, r) ELSE 0,
                            IF r.raised THEN 0 ELSE Len(inputs) - Added(synapses, r))
    /\ op' = "createSynapsesBatch"
    /\ UNCHANGED <<neurons, indexed_files, query_log, now, calls, schema_version, callers>>

strengthenSynapse(sourceId, targetId, delta) ==
    /\ LET t == StrengthenSynapse(synapses, sourceId, targetId, delta, now)
       IN  /\ InBounds(t)
           /\ synapses' = t
    /\ ret' = Void
    /\ op' = "strengthenSynapse"
    /\ UNCHANGED <<neurons, indexed_files, query_log, now, calls, schema_version, callers>>

weakenSynapse(sourceId, targetId, delta) ==
    /\ LET t == WeakenSynapse(synapses, sourceId, targetId, delta)
       IN  /\ InBounds(t)
           /\ synapses' = t
    /\ ret' = Void
    /\ op' = "weakenSynapse"
    /\ UNCHANGED <<neurons, indexed_files, query_log, now, calls, schema_version, callers>>

decayUnusedSynapses(daysOld, delta) ==
    /\ LET t == DecayUnusedSynapses(synapses, daysOld, delta, now)
       IN  /\ InBounds(t)
           /\ synapses' = t
    /\ ret' = Result(FALSE, DecayChanges(synapses, daysOld, now), {}, 0, 0, 0)
    /\ op' = "decayUnusedSynapses"
    /\ UNCHANGED <<neurons, indexed_files, query_log, now, calls, schema_version, callers>>

findOrCreateCoActivationSynapse(sourceId, targetId) ==
    /\ LET r == FindOrCreateCoActivationSynapse(synapses, neurons, sourceId,
                                                targetId, now)
       IN  /\ InBounds(r.tbl)
           /\ synapses' = r.tbl
           /\ ret' = Result(r.raised, 0, {}, 0, 0, 0)
    /\ op' = "findOrCreateCoActivationSynapse"
    /\ UNCHANGED <<neurons, indexed_files, query_log, now, calls, schema_version, callers>>

\* -------------------------------------------------- indexed files, query log
\* INSERT OR REPLACE INTO indexed_files ...
upsertIndexedFile(path) ==
    /\ indexed_files' = {f \in indexed_files : f.path # path}
                          \cup {[path |-> path, content_hash |-> "h"]}
    /\ ret' = Void
    /\ op' = "upsertIndexedFile"
    /\ UNCHANGED <<neurons, synapses, query_log, now, calls, schema_version, callers>>

deleteIndexedFile(path) ==
    /\ indexed_files' = {f \in indexed_files : f.path # path}
    /\ ret' = Void
    /\ op' = "deleteIndexedFile"
    /\ UNCHANGED <<neurons, synapses, query_log, now, calls, schema_version, callers>>

logQuery ==
    /\ Cardinality(query_log) < MaxQueries
    /\ query_log' = query_log \cup {[id |-> uuidv4(query_log), query |-> "q"]}
    /\ ret' = Void
    /\ op' = "logQuery"
    /\ UNCHANGED <<neurons, synapses, indexed_files, now, calls, schema_version, callers>>

clearAll ==
    /\ query_log' = {}
    /\ synapses' = {}
    /\ neurons' = {}
    /\ indexed_files' = {}
    /\ ret' = Void
    /\ op' = "clearAll"
    /\ UNCHANGED <<now, calls, schema_version, callers>>

\* ------------------------------------------------------ opening the store
\* the database file: its four tables and the schema_version row of _meta
Store(n, sy, f, q, v) ==
    [neurons |-> n, synapses |-> sy, indexed_files |-> f, query_log |-> q,
     schema_version |-> v]

\* CREATE TABLE IF NOT EXISTS: a table that exists is left as it is, one that
\* does not is created empty
CreateTableIfNotExists(tbl) == tbl

\* as Migrate, had every open rebuilt the schema: the tables dropped and
\* created again, whatever version is recorded
MigrateFromScratch(store) == Store({}, {}, {}, {}, SCHEMA_VERSION)

\* migrate(): currentVersion is the recorded version, 0 without a row; below
\* 1 the tables are created and schema_version written; nothing else is
\* compared with the version, and nothing throws
Migrate(store) ==
    LET currentVersion == store.schema_version
    IN  IF currentVersion < 1
        THEN Store(CreateTableIfNotExists(store.neurons),
                   CreateTableIfNotExists(store.synapses),
                   CreateTableIfNotExists(store.indexed_files),
                   CreateTableIfNotExists(store.query_log),
                   SCHEMA_VERSION)
        ELSE store

\* new NeuralDB(projectRoot) on the database file as it is: close and reopen
constructor ==
    /\ LET store == Migrate(Store(neurons, synapses, indexed_files, query_log,
                                  schema_version))
       IN  /\ neurons' = store.neurons
           /\ synapses' = store.synapses
           /\ indexed_files' = store.indexed_files
           /\ query_log' = store.query_log
           /\ schema_version' = store.schema_version
    /\ ret' = Void
    /\ op' = "constructor"
    /\ UNCHANGED <<now, calls, callers>>

\* time passes between calls
Tick ==
    /\ now < MaxDay
    /\ now' = now + 1
    /\ UNCHANGED <<neurons, synapses, indexed_files, query_log, op, ret, calls, schema_version, callers>>

\* ------------------------------------------------------------------ spec
NoCalls == [p \in CoPairs |-> 0]

\* a caller that has not called yet
Idle == [pc |-> "idle", pair |-> <<0, 0>>, at_call |-> {}]
NoCallers == [c \in Callers |-> Idle]

\* the store after the constructor ran migrate() on a new database file
Init ==
    /\ neurons = {}
    /\ synapses = {}
    /\ indexed_files = {}
    /\ query_log = {}
    /\ now = 0
    /\ op = "open"
    /\ ret = Void
    /\ calls = NoCalls
    /\ schema_version = SCHEMA_VERSION
    /\ callers = NoCallers

\* Spec: the operations that add and remove neurons and synapses (and the
\* co-activation helper), over two files
Next ==
    \/ \E input \in NeuronCreateInput : createNeuron(input)
    \/ \E inputs \in BatchesOf(NeuronBatchInput) : createNeuronsBatch(inputs)
    \/ \E f \in Files : deleteNeuronsByFile(f)
    \/ \E input \in SynapseCreateInput : createSynapse(input)
    \/ \E inputs \in BatchesOf(SynapseBatchInput) : createSynapsesBatch(inputs)
    \/ \E a, b \in NeuronIds : findOrCreateCoActivationSynapse(a, b)
    \/ clearAll

Spec == Init /\ [][Next]_vars

\* SpecFiles: reindexing, with the manifest and the query log: neurons and
\* synapses are created and deleted by file beside manifest and log writes
NextFiles ==
    \/ \E input \in NeuronCreateInput : createNeuron(input)
    \/ \E f \in Files : deleteNeuronsByFile(f)
    \/ \E input \in LearnSynapseInput : createSynapse(input)
    \/ \E f \in ManifestPaths : upsertIndexedFile(f)
    \/ \E f \in ManifestPaths : deleteIndexedFile(f)
    \/ logQuery
    \/ clearAll

SpecFiles == Init /\ [][NextFiles]_vars

\* SpecLearn: the operations that rewrite weight, fire_count and last_fired,
\* on a clock that advances
NextLearn ==
    \/ \E input \in LearnNeuronInput : createNeuron(input)
    \/ \E input \in LearnSynapseInput : createSynapse(input)
    \/ \E a, b \in NeuronIds : findOrCreateCoActivationSynapse(a, b)
    \/ \E a, b \in NeuronIds, d \in Deltas : strengthenSynapse(a, b, d)
    \/ \E a, b \in NeuronIds, d \in Deltas : weakenSynapse(a, b, d)
    \/ \E k \in DaysOld, d \in Deltas : decayUnusedSynapses(k, d)
    \/ Tick

SpecLearn == Init /\ [][NextLearn]_vars

\* SpecActivate: every operation of the store, neuron activation among them,
\* on a clock that advances
NextActivate ==
    \/ \E input \in ActNeuronInput : createNeuron(input)
    \/ \E inputs \in BatchesOf(LearnNeuronInput) : createNeuronsBatch(inputs)
    \/ \E f \in Files : deleteNeuronsByFile(f)
    \/ \E id \in NeuronIds : updateNeuronActivation(id)
    \/ \E input \in ActSynapseInput : createSynapse(input)
    \/ \E inputs \in BatchesOf(ActSynapseInput) : createSynapsesBatch(inputs)
    \/ \E d \in ActDeltas : strengthenSynapse(1, 2, d)
    \/ \E d \in ActDeltas : weakenSynapse(1, 2, d)
    \/ \E k \in DaysOld, d \in ActDeltas : decayUnusedSynapses(k, d)
    \/ findOrCreateCoActivationSynapse(1, 2)
    \/ \E f \in ManifestPaths : upsertIndexedFile(f)
    \/ \E f \in ManifestPaths : deleteIndexedFile(f)
    \/ logQuery
    \/ clearAll
    \/ Tick

SpecActivate == Init /\ [][NextActivate]_vars

\* SpecOpen: a database file that recorded any schema version up to
\* MaxVersion (0: a new file) was opened, and is used, closed and reopened
InitOpen ==
    /\ \E v \in 0..MaxVersion :
          LET store == Migrate(Store({}, {}, {}, {}, v))
          IN  /\ neurons = store.neurons
              /\ synapses = store.synapses
              /\ indexed_files = store.indexed_files
              /\ query_log = store.query_log
              /\ schema_version = store.schema_version
    /\ now = 0
    /\ op = "constructor"
    /\ ret = Void
    /\ calls = NoCalls
    /\ callers = NoCallers

NextOpen ==
    \/ constructor
    \/ \E input \in ActNeuronInput : createNeuron(input)
    \/ \E input \in ActSynapseInput : createSynapse(input)
    \/ \E f \in Files : deleteNeuronsByFile(f)
    \/ \E f \in ManifestPaths : upsertIndexedFile(f)
    \/ logQuery
    \/ clearAll

SpecOpen == InitOpen /\ [][NextOpen]_vars

\* SpecNeurons: neurons of one file are created, one by one and in batches,
\* with any line span and any embedding view, and deleted
NextNeurons ==
    \/ \E input \in NeuronLineInput : createNeuron(input)
    \/ \E inputs \in BatchesOf(NeuronLineInput) : createNeuronsBatch(inputs)
    \/ \E f \in Files : deleteNeuronsByFile(f)
    \/ clearAll

SpecNeurons == Init /\ [][NextNeurons]_vars

\* SpecCo: two neurons that keep being accepted together, as the retrieval
\* engine's pairing reports them: findOrCreateCoActivationSynapse on the
\* pairs of CoPairs and nothing else, each call counted
findOrCreateCoActivationSynapseCounted(p) ==
    /\ calls[p] < MaxCalls
    /\ LET r == FindOrCreateCoActivationSynapse(synapses, neurons, p[1], p[2], now)
       IN  /\ synapses' = r.tbl
           /\ ret' = Result(r.raised, 0, {}, 0, 0, 0)
    /\ calls' = [calls EXCEPT ![p] = @ + 1]
    /\ op' = "findOrCreateCoActivationSynapse"
    /\ UNCHANGED <<neurons, indexed_files, query_log, now, schema_version, callers>>

\* a store with neurons 1 and 2 and no co_activation synapse, with or
\* without an imports synapse from 1 to 2
InitCo ==
    /\ neurons = {NeuronRow(1, CHOOSE i \in NeuronCreateInput :
                                    i.file_path = "A" /\ i.name = "f"),
                  NeuronRow(2, CHOOSE i \in NeuronCreateInput :
                                    i.file_path = "B" /\ i.name = "f")}
    /\ synapses \in
          {{}, {SynapseRow(1, [source_id |-> 1, target_id |-> 2, weight |-> 50,
                               type |-> "imports", metadata |-> NULL])}}
    /\ indexed_files = {}
    /\ query_log = {}
    /\ now = 0
    /\ op = "open"
    /\ ret = Void
    /\ calls = NoCalls
    /\ schema_version = SCHEMA_VERSION
    /\ callers = NoCallers

NextCo ==
    \/ \E p \in CoPairs : findOrCreateCoActivationSynapseCounted(p)
    \/ Tick

SpecCo == InitCo /\ [][NextCo]_vars

\* SpecRace: two callers of one process observe a pair each; a call that
\* was asked for runs when the event loop gets to it, in one turn
request(c, p) ==
    /\ callers[c].pc = "idle"
    /\ callers' = [callers EXCEPT ![c] = [pc |-> "called", pair |-> p,
                                          at_call |-> synapses]]
    /\ UNCHANGED <<neurons, synapses, indexed_files, query_log, now, op, ret,
                   calls, schema_version>>

findOrCreateCoActivationSynapseBy(c) ==
    /\ callers[c].pc = "called"
    /\ LET p == callers[c].pair
           r == FindOrCreateAfterCheck(CheckedTable(synapses, callers[c].at_call),
                                       synapses, neurons, p[1], p[2], now)
       IN  /\ synapses' = r.tbl
           /\ ret' = Result(r.raised, 0, {}, 0, 0, 0)
    /\ callers' = [callers EXCEPT ![c].pc = "done"]
    /\ op' = "findOrCreateCoActivationSynapse"
    /\ UNCHANGED <<neurons, indexed_files, query_log, now, calls, schema_version>>

NextRace ==
    \/ \E c \in Callers, p \in CoPairs : request(c, p)
    \/ \E c \in Callers : findOrCreateCoActivationSynapseBy(c)
    \/ Tick

SpecRace == InitCo /\ [][NextRace]_vars

\* ---------------------------------------------------------------- claims
\* C1: after any sequence of store operations, with any numeric weight and
\* delta arguments, every synapse row has 0 <= weight <= 1.
C1_WeightInUnitInterval ==
    \A s \in synapses : 0 <= s.weight /\ s.weight <= One

Unique(tbl) ==
    \A s, t \in tbl :
        (s.source_id = t.source_id /\ s.target_id = t.target_id /\ s.type = t.type)
            => s = t

\* the tables the weight updates can make of the synapses
WeightUpdates ==
    UNION {{StrengthenSynapse(synapses, a, b, d, now),
            WeakenSynapse(synapses, a, b, d)} : a, b \in NeuronIds, d \in Deltas}
      \cup {DecayUnusedSynapses(synapses, k, d, now + 1) : k \in DaysOld, d \in Deltas}

\* C3: no two synapse rows share the same (source_id, target_id, type),
\* whatever rows were created and deleted, and no weight update makes two
\* rows share one.
C3_SynapseUnique ==
    Unique(synapses) /\ \A tbl \in WeightUpdates : Unique(tbl)

\* C3 happens: createSynapse was called with a triple the store holds, the
\* insert was skipped and the call returned null
C3_DuplicateIgnored ==
    /\ op = "createSynapse"
    /\ ~ret.raised
    /\ ret.ignored = 1
    /\ Cardinality(synapses) = MaxSynapses

EndpointsIn(tbl) ==
    \A s \in tbl :
        s.source_id \in Ids(neurons) /\ s.target_id \in Ids(neurons)

EndpointsExist ==
    EndpointsIn(synapses) /\ \A tbl \in WeightUpdates : EndpointsIn(tbl)

MissingEndpoint(input) ==
    \E e \in {input.source_id, input.target_id} : \A n \in neurons : n.id # e

\* whatever the store holds, a creation that names a missing neuron raises
\* and leaves the synapses as they are
CreationWithMissingEndpointStoresNothing ==
    /\ \A input \in SynapseCreateInput :
          MissingEndpoint(input) =>
              LET r == CreateSynapse(synapses, neurons, input)
              IN  r.raised /\ r.tbl = synapses
    /\ \A inputs \in BatchesOf(SynapseBatchInput) :
          (\E i \in 1..Len(inputs) : MissingEndpoint(inputs[i])) =>
              LET r == InsertSynapses(synapses, neurons, inputs)
              IN  r.raised /\ Transaction(synapses, r) = synapses
    /\ \A a, b \in NeuronIds :
          MissingEndpoint([source_id |-> a, target_id |-> b]) =>
              LET r == FindOrCreateCoActivationSynapse(synapses, neurons, a, b, now)
              IN  r.raised /\ r.tbl = synapses

\* C4: in every reachable state the source_id and target_id of every synapse
\* are ids of neurons that exist; creating a synapse (single, batch or
\* co-activation) with a non-existent endpoint raises and stores nothing.
C4_EndpointsExist ==
    EndpointsExist /\ CreationWithMissingEndpointStoresNothing

\* C4 happens: a creation named a neuron that does not exist and raised,
\* while the store holds neurons and synapses
C4_MissingEndpointRaised ==
    /\ op \in {"createSynapse", "createSynapsesBatch",
               "findOrCreateCoActivationSynapse"}
    /\ ret.raised
    /\ neurons # {}
    /\ synapses # {}

\* C2: findOrCreateCoActivationSynapse(a, b), for distinct a and b, changes
\* at most the synapse (a, b, co_activation): every other synapse keeps its
\* weight, fire_count and last_fired.
C2_OnlyCoActivationRowChanges ==
    [][op' = "findOrCreateCoActivationSynapse" =>
         \A a, b \in NeuronIds :
            (a # b /\ findOrCreateCoActivationSynapse(a, b)) =>
               \A s \in synapses :
                  (s.source_id = a /\ s.target_id = b /\ s.type = "co_activation")
                     \/ s \in synapses']_vars

\* C5: deleteNeuronsByFile(p) removes exactly the neurons of file p and
\* exactly the synapses with one of them as source or target, returns the
\* number of neurons removed, and leaves the other neurons, the other
\* synapses, the manifest and the query log unchanged.
C5_DeleteByFileFrame ==
    [][op' = "deleteNeuronsByFile" =>
         \A p \in Files :
            deleteNeuronsByFile(p) =>
               LET removed == {n \in neurons : n.file_path = p}
                   touching == {s \in synapses :
                                   \E n \in removed :
                                      s.source_id = n.id \/ s.target_id = n.id}
               IN  /\ neurons' = neurons \ removed
                   /\ synapses' = synapses \ touching
                   /\ ret'.changes = Cardinality(removed)
                   /\ ~ret'.raised
                   /\ indexed_files' = indexed_files
                   /\ query_log' = query_log]_vars

\* C5 happens: a call removed a neuron and a synapse with it, and another
\* neuron, another synapse, a manifest entry and a logged query are left
C5_CascadeWitness ==
    /\ op = "deleteNeuronsByFile"
    /\ ret.changes >= 1
    /\ ret.cascaded >= 1
    /\ neurons # {}
    /\ synapses # {}
    /\ indexed_files # {}
    /\ query_log # {}

Stale(s, daysOld) ==
    /\ s.type = "co_activation"
    /\ s.last_fired # NoTime
    /\ now - s.last_fired > daysOld

\* C7: decayUnusedSynapses(daysOld, delta) sets weight to max(0, weight - delta)
\* on exactly the co_activation synapses fired more than daysOld days ago,
\* never leaves one of them negative, and leaves every other synapse, and
\* every fire_count and last_fired, unchanged.
C7_DecayFrame ==
    [][op' = "decayUnusedSynapses" =>
         \A k \in DaysOld, d \in Deltas :
            decayUnusedSynapses(k, d) =>
               /\ synapses' =
                    {IF Stale(s, k)
                       THEN [s EXCEPT !.weight = IF s.weight - d > 0
                                                   THEN s.weight - d ELSE 0]
                       ELSE s : s \in synapses}
               /\ \A s \in synapses :
                     Stale(s, k) => \E t \in synapses' : t.id = s.id /\ t.weight >= 0]_vars

\* C7 happens: a decay lowered a stale co_activation synapse to 0 while a
\* structural synapse that fired as long ago is in the store
C7_DecayWitness ==
    /\ op = "decayUnusedSynapses"
    /\ ret.changes >= 1
    /\ \E s \in synapses : /\ s.type = "co_activation"
                           /\ s.last_fired # NoTime
                           /\ now - s.last_fired > 0
                           /\ s.weight = 0
    /\ \E s \in synapses : /\ s.type = "imports"
                           /\ s.last_fired # NoTime
                           /\ now - s.last_fired > 0
                           /\ s.weight > 0

TripleOf(x) == <<x.source_id, x.target_id, x.type>>

\* C6: starting with no (a, b, co_activation) synapse, after n >= 1 calls of
\* findOrCreateCoActivationSynapse(a, b) there is one such synapse and its
\* weight is min(1.0, 0.3 + 0.05 * (n - 1)): 1.0 from the 15th call on.
C6_CoActivationWeight ==
    \A p \in CoPairs :
        LET e == {s \in synapses : TripleOf(s) = <<p[1], p[2], "co_activation">>}
            n == calls[p]
        IN  IF n = 0 THEN e = {}
            ELSE /\ Cardinality(e) = 1
                 /\ \A s \in e :
                       /\ s.weight = IF 30 + 5 * (n - 1) < 100
                                        THEN 30 + 5 * (n - 1) ELSE 100
                       /\ n >= 15 => s.weight = 100

\* C6 happens: the pair was observed a 16th time, after the weight reached
\* 1.0 on the 15th
C6_Saturated ==
    /\ calls[<<1, 2>>] = 16
    /\ \E s \in synapses : /\ TripleOf(s) = <<1, 2, "co_activation">>
                           /\ s.weight = One
                           /\ s.fire_count = 15


\* a table without its ids, which are fresh on every insert
Content(tbl) == {[s EXCEPT !.id = 0] : s \in tbl}

RECURSIVE WithoutDuplicates(_, _)
\* the inputs, without those whose triple an earlier input carries
WithoutDuplicates(inputs, seen) ==
    IF inputs = <<>> THEN <<>>
    ELSE IF TripleOf(Head(inputs)) \in seen
    THEN WithoutDuplicates(Tail(inputs), seen)
    ELSE <<Head(inputs)>>
           \o WithoutDuplicates(Tail(inputs), seen \cup {TripleOf(Head(inputs))})

\* C8: createSynapse and createSynapsesBatch insert if absent: a triple that
\* is in the store, or earlier in the batch, adds no row and leaves the row
\* that holds it unchanged; so a batch applied twice, or with duplicates,
\* leaves what the batch without duplicates applied once leaves.
C8_InsertIfAbsent ==
    /\ \A input \in SynapseCreateInput :
          (\E s \in synapses : TripleOf(s) = TripleOf(input)) =>
              LET r == CreateSynapse(synapses, neurons, input)
              IN  ~r.raised /\ r.tbl = synapses
    /\ \A inputs \in BatchesOf(SynapseBatchInput) :
          LET once == Transaction(synapses, InsertSynapses(synapses, neurons, inputs))
              twice == Transaction(once, InsertSynapses(once, neurons, inputs))
              plain == Transaction(synapses,
                           InsertSynapses(synapses, neurons,
                                          WithoutDuplicates(inputs, {})))
          IN  /\ synapses \subseteq once
              /\ twice = once
              /\ Content(once) = Content(plain)

\* C8 happens: a batch ran to its end and OR IGNORE skipped one of its inputs,
\* beside a row whose weight no batch input carries
C8_BatchSkippedDuplicate ==
    /\ op = "createSynapsesBatch"
    /\ ~ret.raised
    /\ ret.ignored >= 1
    /\ \E s \in synapses : s.source_id = 1 /\ s.weight = CoActivationInitialWeight

\* whatever the store holds, a batch with an item that cannot be inserted
\* raises and commits nothing
FailingBatchCommitsNothing ==
    /\ \A inputs \in BatchesOf(SynapseBatchInput) :
          (\E i \in 1..Len(inputs) : MissingEndpoint(inputs[i])) =>
              LET r == InsertSynapses(synapses, neurons, inputs)
              IN  r.raised /\ Transaction(synapses, r) = synapses
    /\ \A inputs \in BatchesOf(NeuronBatchInput) :
          (\E i \in 1..Len(inputs) : inputs[i].name = NULL) =>
              LET r == InsertNeurons(neurons, inputs)
              IN  r.raised /\ Transaction(neurons, r) = neurons

\* C9: createNeuronsBatch and createSynapsesBatch are all-or-nothing: when an
\* item of the batch fails the call raises, no item is stored and the store
\* is as it was before the call.
C9_BatchAllOrNothing ==
    /\ []FailingBatchCommitsNothing
    /\ [][(op' \in {"createNeuronsBatch", "createSynapsesBatch"} /\ ret'.raised)
             => UNCHANGED tables]_vars

\* C9 happens: a batch had inserted a row when a later item failed
C9_RolledBack ==
    /\ op \in {"createNeuronsBatch", "createSynapsesBatch"}
    /\ ret.raised
    /\ ret.rolled_back >= 1

\* C10: after any sequence of store operations, no synapse row has
\* source_id equal to target_id.
C10_NoSelfLoop ==
    \A s \in synapses : s.source_id # s.target_id

\* C11: activation_count starts at 0 and never decreases while the neuron
\* exists; updateNeuronActivation(id) adds exactly 1 to the count of the
\* neuron id and sets its last_activated, changes no other neuron and no
\* synapse; no other operation changes an activation_count.
C11_ActivationCount ==
    [][/\ \A m \in neurons' : m.id \notin Ids(neurons) => m.activation_count = 0
       /\ \A n \in neurons, m \in neurons' :
             m.id = n.id =>
                /\ m.activation_count >= n.activation_count
                /\ m.activation_count # n.activation_count =>
                      /\ op' = "updateNeuronActivation"
                      /\ \E id \in NeuronIds : updateNeuronActivation(id)
       /\ \A id \in NeuronIds :
             updateNeuronActivation(id) =>
                /\ synapses' = synapses
                /\ Ids(neurons') = Ids(neurons)
                /\ \A n \in neurons :
                      IF n.id = id
                      THEN [n EXCEPT !.activation_count = n.activation_count + 1,
                                     !.last_activated = now] \in neurons'
                      ELSE n \in neurons']_vars

\* C11 happens: a neuron was activated on day 1 beside a neuron that was not,
\* with a synapse between them
C11_Activated ==
    /\ op = "updateNeuronActivation"
    /\ \E n \in neurons : n.activation_count = 1 /\ n.last_activated = 1
    /\ \E n \in neurons : n.activation_count = 0
    /\ synapses # {}

\* C12: opening a store whose recorded schema_version is greater than the
\* version the code knows raises.
C12_NewerSchemaIsFatal ==
    (op = "constructor" /\ schema_version > SCHEMA_VERSION) => ret.raised

\* C15: opening a store that exists again changes no neuron, synapse, indexed
\* file or query-log entry and leaves schema_version as it is.
C15_ReopenIsNoOp ==
    [][constructor => UNCHANGED <<tables, schema_version>>]_vars

\* C15 happens: a store with a row in every table was reopened
C15_Reopened ==
    /\ op = "constructor"
    /\ neurons # {}
    /\ synapses # {}
    /\ indexed_files # {}
    /\ query_log # {}

\* C13: the number decayUnusedSynapses returns is the number of synapses
\* whose weight differs before and after the call (stated for stores of
\* synapses between distinct neurons).
C13_DecayReturnsMutated ==
    [][(op' = "decayUnusedSynapses" /\ \A s \in synapses : s.source_id # s.target_id) =>
         \A k \in DaysOld, d \in Deltas :
            decayUnusedSynapses(k, d) =>
               ret'.changes =
                  Cardinality({s \in synapses :
                                  \E t \in synapses' :
                                     t.id = s.id /\ t.weight # s.weight})]_vars

\* every synapse keeps its fire_count and last_fired in the step
FiringUnchanged ==
    \A s \in synapses :
       \E t \in synapses' : /\ t.id = s.id
                             /\ t.fire_count = s.fire_count
                             /\ t.last_fired = s.last_fired

\* C18: fire_count goes up (by 1) and last_fired is set exactly when a
\* synapse is strengthened with delta > 0: strengthenSynapse with
\* delta <= 0, weakenSynapse and decayUnusedSynapses leave both unchanged
\* (strengthenSynapse stated for distinct source and target).
C18_FiresOnPositiveDeltaOnly ==
    [][/\ op' = "strengthenSynapse" =>
             \A a, b \in NeuronIds, d \in Deltas :
                (a # b /\ strengthenSynapse(a, b, d)) =>
                   IF d > 0
                   THEN \A s \in synapses :
                           (s.source_id = a /\ s.target_id = b) =>
                              \E t \in synapses' : /\ t.id = s.id
                                                    /\ t.fire_count = s.fire_count + 1
                                                    /\ t.last_fired = now
                   ELSE FiringUnchanged
       /\ op' \in {"weakenSynapse", "decayUnusedSynapses"} => FiringUnchanged]_vars

\* whatever the store holds, strengthenSynapse and weakenSynapse with
\* delta >= 0 clamp the weights that are in [0, 1], keep the rows there are
\* and change nothing without a synapse from source to target
AdjustClamps ==
    \A a, b \in NeuronIds, d \in Deltas :
       d >= 0 =>
          LET up == StrengthenSynapse(synapses, a, b, d, now)
              down == WeakenSynapse(synapses, a, b, d)
              none == \A s \in synapses : ~(s.source_id = a /\ s.target_id = b)
          IN  /\ Ids(up) = Ids(synapses) /\ Cardinality(up) = Cardinality(synapses)
              /\ Ids(down) = Ids(synapses) /\ Cardinality(down) = Cardinality(synapses)
              /\ none => (up = synapses /\ down = synapses)
              /\ \A s \in synapses :
                    (/\ s.source_id = a /\ s.target_id = b
                     /\ 0 <= s.weight /\ s.weight <= One) =>
                       /\ \E t \in up :
                             /\ t.id = s.id
                             /\ t.weight = IF s.weight + d < One
                                              THEN s.weight + d ELSE One
                             /\ t.weight >= s.weight
                             /\ 0 <= t.weight /\ t.weight <= One
                       /\ \E t \in down :
                             /\ t.id = s.id
                             /\ t.weight = IF s.weight - d > 0
                                              THEN s.weight - d ELSE 0
                             /\ t.weight <= s.weight
                             /\ 0 <= t.weight /\ t.weight <= One

\* C19: for a weight w in [0, 1] and delta >= 0, strengthenSynapse stores
\* min(1, w + delta) and weakenSynapse max(0, w - delta): the weight stays in
\* [0, 1], strengthening does not lower it and weakening does not raise it;
\* neither raises or creates a row, and without a synapse from source to
\* target neither changes anything.
C19_ClampedAdjust ==
    /\ []AdjustClamps
    /\ [][op' \in {"strengthenSynapse", "weakenSynapse"} =>
             (~ret'.raised /\ Ids(synapses') = Ids(synapses))]_vars

\* C19 happens: a weakening took a co_activation synapse that never fired to
\* 0 while another synapse sits at 1.0
C19_Clamped ==
    /\ op = "weakenSynapse"
    /\ \E s \in synapses : s.weight = 0 /\ s.fire_count = 0
    /\ \E s \in synapses : s.weight = One

\* a synapse that never fired has no last_fired
UnfiredHasNoLastFired ==
    \A s \in synapses : s.fire_count = 0 => s.last_fired = NoTime

\* C20: a synapse is created with fire_count 0 and no last_fired, and while
\* it has not been strengthened decayUnusedSynapses leaves it as it is.
C20_UnfiredNeverDecays ==
    /\ []UnfiredHasNoLastFired
    /\ [][/\ \A t \in synapses' :
                t.id \notin Ids(synapses) =>
                   t.fire_count = 0 /\ t.last_fired = NoTime
          /\ op' = "decayUnusedSynapses" =>
                \A k \in DaysOld, d \in Deltas :
                   decayUnusedSynapses(k, d) =>
                      \A s \in synapses : s.fire_count = 0 => s \in synapses']_vars

\* C20 happens: a day after its creation a co_activation synapse that never
\* fired still has its initial weight after a decay that changed another
C20_UnfiredKept ==
    /\ op = "decayUnusedSynapses"
    /\ now >= 1
    /\ ret.changes >= 1
    /\ \E s \in synapses : /\ s.type = "co_activation"
                           /\ s.fire_count = 0
                           /\ s.weight = CoActivationInitialWeight
    /\ \E s \in synapses : /\ s.type = "co_activation"
                           /\ s.fire_count = 1
                           /\ s.weight = 0

\* C14: every stored neuron has start_line <= end_line.
C14_LineSpanOrdered ==
    \A n \in neurons : n.start_line <= n.end_line

\* C16: the neuron createNeuron returns has every scalar field equal to the
\* input and an embedding with the elements of the input embedding, a view
\* of part of a buffer and an empty one included.
C16_ReadBackEqualsInput ==
    [][op' = "createNeuron" =>
         \A input \in NeuronLineInput :
            createNeuron(input) =>
               /\ ~ret'.raised
               /\ ret'.rows # {}
               /\ \A n \in ret'.rows :
                     /\ n.file_path = input.file_path
                     /\ n.name = input.name
                     /\ n.start_line = input.start_line
                     /\ n.end_line = input.end_line
                     /\ n.embedding = Elements(input.embedding)]_vars

C21_CreateSynapseReturnsRow ==
    [][op' = "createSynapse" =>
         \A input \in SynapseCreateInput :
            (/\ input.source_id # input.target_id
             /\ createSynapse(input)
             /\ ~ret'.raised) =>
               /\ ret'.rows # {}
               /\ \A r \in ret'.rows :
                     /\ TripleOf(r) = TripleOf(input)
                     /\ \E s \in synapses' : s.id = r.id]_vars

====
